---- MODULE Spec2Model ----
(***************************************************************************)
(* FreeBoard (src/app.js): the BoardState singleton, its undo/redo         *)
(* history, the derived tag set, the viewport and the two localStorage     *)
(* records, driven by the renderer's, the canvas controller's and the      *)
(* toolbar's handlers.                                                     *)
(*                                                                         *)
(* A JS Map is modelled as the sequence of its <<key, value>> entries in   *)
(* insertion order.  JS numbers are modelled as exact rationals <<n, d>>   *)
(* for the viewport and as integers for pin geometry.  A string the user   *)
(* types is a sequence of characters.  JSON text is modelled as the        *)
(* ordered list of <<key, value>> members of each object.                  *)
(***************************************************************************)
EXTENDS Integers, Sequences, FiniteSets, TLC

VARIABLES
    pins,          \* state.pins: Map id -> pin object
    history,       \* state.history
    historyIndex,  \* state.historyIndex (0-based, -1 when empty)
    tags,          \* state.tags: Set, in insertion order
    nextPinId,     \* state.nextPinId
    zoom,          \* state.zoom
    panX,          \* state.panX
    panY,          \* state.panY
    localStorage,  \* the two records kept in localStorage
    isPanning,     \* canvasController.isPanning
    startX,        \* canvasController.startX
    startY,        \* canvasController.startY
    aliasOf,       \* heap: 1-based index of the history entry whose pin objects
                   \* the live Map holds (0: none)
    sharedIds,     \* heap: ids whose live pin object IS the object in history[aliasOf]
    pushes,        \* observer: number of saveState() calls so far
    shifted,       \* observer: number of history.shift() evictions so far
    preSave,       \* observer: history and cursor at entry of the last saveState()
    lastOp,        \* observer: the last handler that ran
    beforeMut,     \* observer: state.pins right before the last pin mutation
    trail,         \* observer: state.pins after construction and after each mutation
    phase,         \* observer: "mutating", then "traveling" after an undo/redo, then "off"
    travelPos,     \* observer: mutations minus the undos not yet redone, while not "off"
    thrown,        \* observer: the last handler ended with an uncaught exception
    assigned,      \* observer: every id PinFactory has given a pin so far
    made,          \* observer: <<pin>>, the pin PinFactory returned last (<<>>: none yet)
    snapLog,       \* observer: the board as it was at each saveSnapshot still listed
    uploads,       \* the image uploads in the order the files were selected, each
                   \* with the stage its callbacks have reached
    used,          \* bound: how many operations of each category have run
    env            \* bound: the limits and inputs of this run

vars == <<pins, history, historyIndex, tags, nextPinId, zoom, panX, panY,
          localStorage, isPanning, startX, startY, aliasOf, sharedIds,
          pushes, shifted, preSave, lastOp, beforeMut, trail, phase, travelPos,
          thrown, assigned, made, snapLog, uploads, used, env>>

(***************************************************************************)
(* Program constant and model bounds                                       *)
(***************************************************************************)
maxHistory == 50

MaxPins == 2
MaxOps == 4
MaxTagOps == 5
MaxTravels == 3
CapPushes == 51
MaxStoreOps == 4
MaxStoreTravels == 2
MaxRoundTripOps == 4
MaxRestartOps == 4
MaxZoomOps == 3
ClicksToTop == 6
ClicksToBottom == 10
MaxSnapOps == 4
MaxFactoryOps == 3
MaxUploadOps == 4
MaxUploadTravels == 1
MaxUploads == 2

(***************************************************************************)
(* Exact rational arithmetic for the viewport numbers                      *)
(***************************************************************************)
Abs(n) == IF n < 0 THEN -n ELSE n

RECURSIVE GCD(_, _)
GCD(a, b) == IF b = 0 THEN a ELSE GCD(b, a % b)

Rat(n, d) ==
    LET g == GCD(Abs(n), Abs(d))
        s == IF d < 0 THEN -1 ELSE 1
    IN  <<(s * n) \div g, (s * d) \div g>>

RInt(n) == <<n, 1>>
\* common factors are divided out before the products are taken
RMul(a, b) ==
    LET g1 == GCD(Abs(a[1]), b[2])
        g2 == GCD(Abs(b[1]), a[2])
    IN  Rat((a[1] \div g1) * (b[1] \div g2), (a[2] \div g2) * (b[2] \div g1))
RDiv(a, b) == RMul(a, Rat(b[2], b[1]))
RSub(a, b) ==
    LET g == GCD(a[2], b[2])
    IN  Rat(a[1] * (b[2] \div g) - b[1] * (a[2] \div g), (a[2] \div g) * b[2])
RAdd(a, b) ==
    LET g == GCD(a[2], b[2])
    IN  Rat(a[1] * (b[2] \div g) + b[1] * (a[2] \div g), (a[2] \div g) * b[2])
\* the integer parts decide, or else the fractional parts do
RLe(a, b) ==
    LET qa == a[1] \div a[2]
        qb == b[1] \div b[2]
        g == GCD(a[2], b[2])
    IN  IF qa # qb THEN qa < qb
        ELSE (a[1] % a[2]) * (b[2] \div g) <= (b[1] % b[2]) * (a[2] \div g)
RMax(a, b) == IF RLe(a, b) THEN b ELSE a
RMin(a, b) == IF RLe(a, b) THEN a ELSE b

ZoomMin == Rat(1, 10)
ZoomMax == RInt(3)
\* variant: no upper bound
ClampZoomLowOnly(z) == RMax(ZoomMin, z)

ClampZoom(z) == RMax(ZoomMin, RMin(ZoomMax, z))

(***************************************************************************)
(* Sequences and JS Maps                                                   *)
(***************************************************************************)
Range(s) == {s[i] : i \in 1..Len(s)}
Includes(s, v) == v \in Range(s)
RemoveAt(s, i) == SubSeq(s, 1, i - 1) \o SubSeq(s, i + 1, Len(s))
Filter(s, v) == SelectSeq(s, LAMBDA t : t # v)

MapKeys(m) == {m[i][1] : i \in 1..Len(m)}
MapHas(m, k) == k \in MapKeys(m)
MapGet(m, k) == m[CHOOSE i \in 1..Len(m) : m[i][1] = k][2]
MapSet(m, k, v) ==
    IF MapHas(m, k)
    THEN [i \in 1..Len(m) |-> IF m[i][1] = k THEN <<k, v>> ELSE m[i]]
    ELSE Append(m, <<k, v>>)
MapDelete(m, k) == SelectSeq(m, LAMBDA e : e[1] # k)
MapValues(m) == [i \in 1..Len(m) |-> m[i][2]]

RECURSIVE MapFromEntries(_)
MapFromEntries(es) ==
    IF es = <<>> THEN <<>>
    ELSE LET n == Len(es)
         IN  MapSet(MapFromEntries(SubSeq(es, 1, n - 1)), es[n][1], es[n][2])

(***************************************************************************)
(* JSON                                                                    *)
(***************************************************************************)
PinKeys(type) ==
    CASE type = "text" ->
           <<"id", "type", "x", "y", "width", "height", "content", "tags", "created">>
      [] type = "image" ->
           <<"id", "type", "x", "y", "width", "height", "imageUrl", "imageWidth",
             "imageHeight", "tags", "created">>
      [] type = "list" ->
           <<"id", "type", "x", "y", "width", "height", "items", "tags", "created">>

JSONStringifyPin(pin) ==
    LET ks == PinKeys(pin.type)
    IN  [i \in 1..Len(ks) |-> <<ks[i], pin[ks[i]]>>]

JSONParsePin(text) ==
    [k \in {text[i][1] : i \in 1..Len(text)} |->
        text[CHOOSE i \in 1..Len(text) : text[i][1] = k][2]]

JSONStringifyEntries(es) == [i \in 1..Len(es) |-> <<es[i][1], JSONStringifyPin(es[i][2])>>]
JSONParseEntries(text) == [i \in 1..Len(text) |-> <<text[i][1], JSONParsePin(text[i][2])>>]

JSONClone(s) ==
    [pins |-> JSONParseEntries(JSONStringifyEntries(s.pins)),
     zoom |-> s.zoom, panX |-> s.panX, panY |-> s.panY]

\* localStorage.getItem: <<>> for a key never set, <<text>> otherwise
NoItem == <<>>
Item(text) == <<text>>

\* A stored text: the JSON members JSON.stringify wrote, or text that
\* JSON.parse rejects with a SyntaxError
JSONText(members) == [parses |-> TRUE, value |-> members]
Malformed == [parses |-> FALSE]

\* JS undefined (Map.get of a key the Map does not hold)
Undefined == "undefined"

\* v || d on numbers: 0 is falsy
OrRat(v, d) == IF v[1] = 0 THEN d ELSE v
OrInt(v, d) == IF v = 0 THEN d ELSE v

\* JS null (the imageUrl of an image pin without an image)
Null == "null"

(***************************************************************************)
(* PinFactory                                                              *)
(***************************************************************************)
PinId(n) == <<"pin-", n>>
Now == 0

createTextPin(n, x, y) ==
    [id |-> PinId(n), type |-> "text", x |-> x, y |-> y, width |-> 300, height |-> 200,
     content |-> <<>>, tags |-> <<>>, created |-> Now]

\* variant: an image pin as tall as a text pin
createImagePinSquat(n, x, y) ==
    [id |-> PinId(n), type |-> "image", x |-> x, y |-> y, width |-> 300, height |-> 200,
     imageUrl |-> Null, imageWidth |-> 0, imageHeight |-> 0, tags |-> <<>>,
     created |-> Now]

createImagePin(n, x, y) ==
    [id |-> PinId(n), type |-> "image", x |-> x, y |-> y, width |-> 300, height |-> 300,
     imageUrl |-> Null, imageWidth |-> 0, imageHeight |-> 0, tags |-> <<>>,
     created |-> Now]

createListPin(n, x, y) ==
    [id |-> PinId(n), type |-> "list", x |-> x, y |-> y, width |-> 300, height |-> 250,
     items |-> <<>>, tags |-> <<>>, created |-> Now]

createPin(type, n, x, y) ==
    CASE type = "text" -> createTextPin(n, x, y)
      [] type = "image" -> createImagePin(n, x, y)
      [] type = "list" -> createListPin(n, x, y)

(***************************************************************************)
(* BoardState: the methods, as functions of the board b (the fields of     *)
(* state, the localStorage in ls, the heap identity and the observers)     *)
(***************************************************************************)
Cur ==
    [pins |-> pins, history |-> history, historyIndex |-> historyIndex, tags |-> tags,
     nextPinId |-> nextPinId, zoom |-> zoom, panX |-> panX, panY |-> panY,
     ls |-> localStorage, aliasOf |-> aliasOf, sharedIds |-> sharedIds,
     pushes |-> pushes, shifted |-> shifted, preSave |-> preSave,
     thrown |-> FALSE, assigned |-> assigned, made |-> made, snapLog |-> snapLog,
     uploads |-> uploads]

\* an exception leaves the method: nothing after the throwing call runs
Throw(b) == [b EXCEPT !.thrown = TRUE]

getPin(b, id) == IF MapHas(b.pins, id) THEN MapGet(b.pins, id) ELSE Undefined

getAllPins(b) == MapValues(b.pins)

\* variant: the redo tail is kept
truncateFutureKeep(h, idx) == h

\* history.slice(0, historyIndex + 1) when the cursor is below the last entry
truncateFuture(h, idx) ==
    IF idx < Len(h) - 1 THEN SubSeq(h, 1, idx + 1) ELSE h

\* variant: the cap test is >= instead of >
limitHistoryEarly(b, h) ==
    IF Len(h) >= maxHistory
    THEN [b EXCEPT !.history = Tail(h),
                   !.shifted = @ + 1,
                   !.aliasOf = IF @ > 0 THEN @ - 1 ELSE 0,
                   !.sharedIds = IF b.aliasOf <= 1 THEN {} ELSE @]
    ELSE [b EXCEPT !.history = h, !.historyIndex = @ + 1]

\* variant: no eviction
limitHistoryNoShift(b, h) == [b EXCEPT !.history = h, !.historyIndex = @ + 1]

\* variant: the cursor advances after an eviction too
limitHistoryShiftAndAdvance(b, h) ==
    IF Len(h) > maxHistory
    THEN [b EXCEPT !.history = Tail(h),
                   !.historyIndex = @ + 1,
                   !.shifted = @ + 1,
                   !.aliasOf = IF @ > 0 THEN @ - 1 ELSE 0,
                   !.sharedIds = IF b.aliasOf <= 1 THEN {} ELSE @]
    ELSE [b EXCEPT !.history = h, !.historyIndex = @ + 1]

\* the cap test and its two branches: shift(), or historyIndex++
limitHistory(b, h) ==
    IF Len(h) > maxHistory
    THEN [b EXCEPT !.history = Tail(h),
                   !.shifted = @ + 1,
                   !.aliasOf = IF @ > 0 THEN @ - 1 ELSE 0,
                   !.sharedIds = IF b.aliasOf <= 1 THEN {} ELSE @]
    ELSE [b EXCEPT !.history = h, !.historyIndex = @ + 1]

saveState(b) ==
    LET h1 == truncateFuture(b.history, b.historyIndex)
        snap == JSONClone([pins |-> b.pins, zoom |-> b.zoom,
                           panX |-> b.panX, panY |-> b.panY])
        b1 == [b EXCEPT !.pushes = @ + 1,
                        !.preSave = [history |-> b.history,
                                     historyIndex |-> b.historyIndex]]
    IN  limitHistory(b1, Append(h1, snap))

\* variant: nothing is written
saveToStorageSkipped(b) == b

saveToStorage(b) ==
    [b EXCEPT !.ls.freeboard_state =
        Item(JSONText([pins |-> JSONStringifyEntries(b.pins), zoom |-> b.zoom,
                       panX |-> b.panX, panY |-> b.panY, nextPinId |-> b.nextPinId]))]

RECURSIVE addAll(_, _)
addAll(set, ts) ==
    IF ts = <<>> THEN set
    ELSE addAll(IF Includes(set, Head(ts)) THEN set ELSE Append(set, Head(ts)), Tail(ts))

RECURSIVE collectTags(_, _)
collectTags(set, ps) ==
    IF ps = <<>> THEN set
    ELSE collectTags(addAll(set, Head(ps).tags), Tail(ps))

\* variant: the set is not reset before the pins are walked
updateTagListAccumulate(b) == [b EXCEPT !.tags = collectTags(@, getAllPins(b))]

updateTagList(b) == [b EXCEPT !.tags = collectTags(<<"all">>, getAllPins(b))]

addPin(b, pin) ==
    LET b1 == [b EXCEPT !.pins = MapSet(@, pin.id, pin),
                        !.sharedIds = @ \ {pin.id}]
    IN  updateTagList(saveToStorage(saveState(b1)))

\* Object.assign(pin, updates)
Assign(pin, updates) ==
    [k \in DOMAIN pin \cup DOMAIN updates |->
        IF k \in DOMAIN updates THEN updates[k] ELSE pin[k]]

\* A write to a live pin object.  After restoreState the object is also the one
\* the history entry aliasOf holds, so the entry shows the write too.
assignPin(b, id, updates) ==
    LET b1 == [b EXCEPT !.pins = MapSet(@, id, Assign(MapGet(@, id), updates))]
    IN  IF id \in b.sharedIds
        THEN [b1 EXCEPT !.history[b.aliasOf].pins =
                            MapSet(@, id, Assign(MapGet(@, id), updates))]
        ELSE b1

updatePin(b, id, updates) ==
    IF MapHas(b.pins, id)
    THEN saveToStorage(saveState(assignPin(b, id, updates)))
    ELSE b

Max(a, b) == IF a >= b THEN a ELSE b
Min(a, b) == IF a <= b THEN a ELSE b

\* img.onload of handleImageUpload for the k-th file selected: the pin is
\* updated and then rendered again; renderPin reads pin.id of what getPin returns
imageFields(file) ==
    [imageUrl |-> file.url,
     imageWidth |-> file.width,
     imageHeight |-> file.height,
     width |-> Max(300, Min(600, file.width)),
     height |-> Max(200, Min(600, file.height))]

\* variant: the source first, the sizes in a second update
imageLoadedInTwoUpdates(b, k) ==
    LET u == b.uploads[k]
        all == imageFields(u.file)
        b1 == updatePin(b, u.id, [imageUrl |-> all.imageUrl])
        b2 == updatePin(b1, u.id, [imageWidth |-> all.imageWidth,
                                   imageHeight |-> all.imageHeight,
                                   width |-> all.width, height |-> all.height])
        b3 == [b2 EXCEPT !.uploads[k].stage = "done"]
    IN  IF MapHas(b3.pins, u.id) THEN b3 ELSE Throw(b3)

imageLoaded(b, k) ==
    LET u == b.uploads[k]
        b1 == updatePin(b, u.id, imageFields(u.file))
        b2 == [b1 EXCEPT !.uploads[k].stage = "done"]
    IN  IF MapHas(b2.pins, u.id) THEN b2 ELSE Throw(b2)

\* the resize handle: the mousemove sizes the element, the mouseup stores it
resizedTo(pin, want) ==
    LET newWidth == Max(200, want[1])
        newHeight == Max(100, want[2])
    IN  IF pin.type = "image" /\ pin.imageWidth # 0 /\ pin.imageHeight # 0
        THEN [width |-> Max(pin.imageWidth, newWidth),
              height |-> Max(pin.imageHeight, newHeight)]
        ELSE [width |-> newWidth, height |-> newHeight]

\* variant: the deletion is not pushed onto the history
deletePinWithoutSave(b, id) ==
    updateTagList(saveToStorage([b EXCEPT !.pins = MapDelete(@, id),
                                          !.sharedIds = @ \ {id}]))

deletePin(b, id) ==
    LET b1 == [b EXCEPT !.pins = MapDelete(@, id), !.sharedIds = @ \ {id}]
    IN  updateTagList(saveToStorage(saveState(b1)))

\* variant: the entry's pins are merged into the live Map
restoreStateMerge(b, i) ==
    LET entry == b.history[i + 1]
        b1 == [b EXCEPT !.pins = MapFromEntries(@ \o entry.pins),
                        !.zoom = entry.zoom,
                        !.panX = entry.panX,
                        !.panY = entry.panY,
                        !.aliasOf = i + 1,
                        !.sharedIds = MapKeys(entry.pins)]
    IN  updateTagList(saveToStorage(b1))

\* restoreState(this.history[i]): new Map(state.pins) holds the entry's own objects
restoreState(b, i) ==
    LET entry == b.history[i + 1]
        b1 == [b EXCEPT !.pins = MapFromEntries(entry.pins),
                        !.zoom = entry.zoom,
                        !.panX = entry.panX,
                        !.panY = entry.panY,
                        !.aliasOf = i + 1,
                        !.sharedIds = MapKeys(entry.pins)]
    IN  updateTagList(saveToStorage(b1))

\* variant: the restore is outside the guard
undoRestoresAtZero(b) ==
    IF b.historyIndex > 0
    THEN restoreState([b EXCEPT !.historyIndex = @ - 1], b.historyIndex - 1)
    ELSE restoreState(b, b.historyIndex)

\* variant: the entry at index 0 is never returned to
undoStopsAtOne(b) ==
    IF b.historyIndex > 1
    THEN restoreState([b EXCEPT !.historyIndex = @ - 1], b.historyIndex - 1)
    ELSE b

undo(b) ==
    IF b.historyIndex > 0
    THEN restoreState([b EXCEPT !.historyIndex = @ - 1], b.historyIndex - 1)
    ELSE b

redo(b) ==
    IF b.historyIndex < Len(b.history) - 1
    THEN restoreState([b EXCEPT !.historyIndex = @ + 1], b.historyIndex + 1)
    ELSE b

JSONStringifySnapshots(ss) ==
    [i \in 1..Len(ss) |->
        [name |-> ss[i].name, date |-> ss[i].date,
         data |-> [pins |-> JSONStringifyEntries(ss[i].data.pins), zoom |-> ss[i].data.zoom,
                   panX |-> ss[i].data.panX, panY |-> ss[i].data.panY]]]

JSONParseSnapshots(text) ==
    [i \in 1..Len(text) |->
        [name |-> text[i].name, date |-> text[i].date,
         data |-> [pins |-> JSONParseEntries(text[i].data.pins), zoom |-> text[i].data.zoom,
                   panX |-> text[i].data.panX, panY |-> text[i].data.panY]]]

\* JSON.parse(saved) in getSnapshots throws on text it cannot parse
snapshotsParse(b) ==
    IF b.ls.freeboard_snapshots = NoItem THEN TRUE
    ELSE b.ls.freeboard_snapshots[1].parses

getSnapshots(b) ==
    IF b.ls.freeboard_snapshots = NoItem THEN <<>>
    ELSE JSONParseSnapshots(b.ls.freeboard_snapshots[1].value)

\* variant: the snapshot is pushed onto the undo history as well
saveSnapshotPushing(b, name) ==
    IF ~snapshotsParse(b) THEN Throw(b)
    ELSE LET snapshot == [name |-> name, date |-> Now,
                          data |-> [pins |-> b.pins, zoom |-> b.zoom,
                                    panX |-> b.panX, panY |-> b.panY]]
         IN  saveState([b EXCEPT !.ls.freeboard_snapshots =
                 Item(JSONText(JSONStringifySnapshots(Append(getSnapshots(b), snapshot))))])

saveSnapshot(b, name) ==
    IF ~snapshotsParse(b) THEN Throw(b)
    ELSE LET snapshot == [name |-> name, date |-> Now,
                          data |-> [pins |-> b.pins, zoom |-> b.zoom,
                                    panX |-> b.panX, panY |-> b.panY]]
         IN  [b EXCEPT !.ls.freeboard_snapshots =
                 Item(JSONText(JSONStringifySnapshots(Append(getSnapshots(b), snapshot))))]

\* variant: the snapshot's pins are loaded under the live viewport
loadSnapshotKeepViewport(b, index) ==
    IF ~snapshotsParse(b) THEN Throw(b)
    ELSE LET snapshots == getSnapshots(b)
         IN  IF index + 1 \in 1..Len(snapshots)
             THEN LET data == snapshots[index + 1].data
                      b1 == [b EXCEPT !.pins = MapFromEntries(data.pins),
                                      !.aliasOf = 0,
                                      !.sharedIds = {}]
                  IN  updateTagList(saveToStorage(saveState(b1)))
             ELSE b

\* index is 0-based; snapshots[index] is undefined beyond the list
loadSnapshot(b, index) ==
    IF ~snapshotsParse(b) THEN Throw(b)
    ELSE LET snapshots == getSnapshots(b)
         IN  IF index + 1 \in 1..Len(snapshots)
             THEN LET data == snapshots[index + 1].data
                      b1 == [b EXCEPT !.pins = MapFromEntries(data.pins),
                                      !.zoom = data.zoom,
                                      !.panX = data.panX,
                                      !.panY = data.panY,
                                      !.aliasOf = 0,
                                      !.sharedIds = {}]
                  IN  updateTagList(saveToStorage(saveState(b1)))
             ELSE b

deleteSnapshot(b, index) ==
    IF ~snapshotsParse(b) THEN Throw(b)
    ELSE LET snapshots == getSnapshots(b)
             rest == IF index + 1 \in 1..Len(snapshots)
                     THEN RemoveAt(snapshots, index + 1) ELSE snapshots
         IN  [b EXCEPT !.ls.freeboard_snapshots = Item(JSONText(JSONStringifySnapshots(rest)))]

\* variant: the stored next-id counter is not read
loadFromStorageNoCounter(b) ==
    LET saved == b.ls.freeboard_state
    IN  IF saved # NoItem
        THEN IF saved[1].parses
             THEN LET data == saved[1].value
                      b1 == [b EXCEPT !.pins = MapFromEntries(JSONParseEntries(data.pins)),
                                      !.zoom = OrRat(data.zoom, RInt(1)),
                                      !.panX = OrRat(data.panX, RInt(0)),
                                      !.panY = OrRat(data.panY, RInt(0))]
                  IN  updateTagList(saveState(b1))
             ELSE b
        ELSE saveState(b)

\* variant: the hydrated board is not pushed as the first history entry
loadFromStorageNoBaseline(b) ==
    LET saved == b.ls.freeboard_state
    IN  IF saved # NoItem
        THEN IF saved[1].parses
             THEN LET data == saved[1].value
                      b1 == [b EXCEPT !.pins = MapFromEntries(JSONParseEntries(data.pins)),
                                      !.zoom = OrRat(data.zoom, RInt(1)),
                                      !.panX = OrRat(data.panX, RInt(0)),
                                      !.panY = OrRat(data.panY, RInt(0)),
                                      !.nextPinId = OrInt(data.nextPinId, 1)]
                  IN  updateTagList(b1)
             ELSE b
        ELSE saveState(b)

\* loadFromStorage(): the stored record hydrates the board and becomes the one
\* history entry; with no record the empty board does; when the record does
\* not parse the catch block logs and nothing else runs
loadFromStorage(b) ==
    LET saved == b.ls.freeboard_state
    IN  IF saved # NoItem
        THEN IF saved[1].parses
             THEN LET data == saved[1].value
                      b1 == [b EXCEPT !.pins = MapFromEntries(JSONParseEntries(data.pins)),
                                      !.zoom = OrRat(data.zoom, RInt(1)),
                                      !.panX = OrRat(data.panX, RInt(0)),
                                      !.panY = OrRat(data.panY, RInt(0)),
                                      !.nextPinId = OrInt(data.nextPinId, 1)]
                  IN  updateTagList(saveState(b1))
             ELSE b
        ELSE saveState(b)

\* new BoardState() over the localStorage ls; obs carries the observers on
constructor(ls, obs) ==
    loadFromStorage(
        [pins |-> <<>>, history |-> <<>>, historyIndex |-> -1, tags |-> <<"all">>,
         nextPinId |-> 1, zoom |-> RInt(1), panX |-> RInt(0), panY |-> RInt(0),
         ls |-> ls, aliasOf |-> 0, sharedIds |-> {},
         pushes |-> obs.pushes, shifted |-> obs.shifted,
         preSave |-> [history |-> <<>>, historyIndex |-> -1],
         thrown |-> FALSE, assigned |-> obs.assigned, made |-> obs.made,
         snapLog |-> obs.snapLog, uploads |-> <<>>])

EmptyStorage == [freeboard_state |-> NoItem, freeboard_snapshots |-> NoItem]

\* new BoardState() with nothing in localStorage
construct ==
    constructor(EmptyStorage, [pushes |-> 0, shifted |-> 0, assigned |-> {},
                               made |-> <<>>, snapLog |-> <<>>])

\* PinFactory.create*Pin(x, y): the pin made, state.nextPinId++
PinFactoryCreate(b, type, x, y) ==
    LET pin == createPin(type, b.nextPinId, x, y)
    IN  [b EXCEPT !.nextPinId = @ + 1,
                  !.assigned = @ \cup {pin.id},
                  !.made = <<pin>>]

(***************************************************************************)
(* The handlers                                                            *)
(***************************************************************************)
Commit(b) ==
    /\ pins' = b.pins
    /\ history' = b.history
    /\ historyIndex' = b.historyIndex
    /\ tags' = b.tags
    /\ nextPinId' = b.nextPinId
    /\ zoom' = b.zoom
    /\ panX' = b.panX
    /\ panY' = b.panY
    /\ localStorage' = b.ls
    /\ aliasOf' = b.aliasOf
    /\ sharedIds' = b.sharedIds
    /\ pushes' = b.pushes
    /\ shifted' = b.shifted
    /\ preSave' = b.preSave
    /\ thrown' = b.thrown
    /\ assigned' = b.assigned
    /\ made' = b.made
    /\ snapLog' = b.snapLog
    /\ uploads' = b.uploads

\* the observers a new BoardState takes over from the page before
Observers ==
    [pushes |-> pushes, shifted |-> shifted, assigned |-> assigned, made |-> made,
     snapLog |-> snapLog]

Op(name, arg, saved) == [name |-> name, arg |-> arg, saved |-> saved]

\* the observers after a pin mutation (addPin, updatePin, deletePin) that led to b
Mutated(b, name, arg) ==
    /\ lastOp' = Op(name, arg, TRUE)
    /\ beforeMut' = pins
    /\ phase' = IF phase = "mutating" THEN "mutating" ELSE "off"
    /\ trail' = IF phase = "mutating" THEN Append(trail, b.pins) ELSE <<>>
    /\ travelPos' = IF phase = "mutating" THEN Len(trail) ELSE 0

\* the observers after undo or redo, called with the cursor at historyIndex
Traveled(name) ==
    /\ lastOp' = Op(name, <<historyIndex>>, FALSE)
    /\ phase' = IF phase = "mutating" THEN "traveling" ELSE phase
    /\ travelPos' = CASE phase = "off" -> 0
                     [] name = "undo" -> IF travelPos > 0 THEN travelPos - 1 ELSE 0
                     [] OTHER -> IF travelPos < Len(trail) - 1 THEN travelPos + 1
                                 ELSE travelPos
    /\ UNCHANGED <<beforeMut, trail>>

\* the observers after a handler that is neither
Other(name, arg, saved) ==
    /\ lastOp' = Op(name, arg, saved)
    /\ UNCHANGED <<beforeMut, trail, phase, travelPos>>

\* the bounds of a run: env.ops handlers other than undo and redo, env.travels
\* undo and redo calls (unbounded when negative), env.pins pins created; with
\* env.branch false no pin is changed after an undo or redo
CanOp == used.ops < env.ops
CanPush == CanOp /\ (env.branch \/ phase = "mutating")
CanTravel == env.travels < 0 \/ used.travels < env.travels
Spent == used' = [used EXCEPT !.ops = @ + 1]
SpentTravel == used' = IF env.travels < 0 THEN used ELSE [used EXCEPT !.travels = @ + 1]
Controller == UNCHANGED <<isPanning, startX, startY>>

LiveIds == MapKeys(pins)
IdsOfType(type) == {id \in LiveIds : MapGet(pins, id).type = type}

\* ToolbarController.addPin(type): PinFactory, then state.addPin
AddPin(type, pt) ==
    /\ CanPush
    /\ nextPinId <= env.pins
    /\ LET b1 == PinFactoryCreate(Cur, type, pt[1], pt[2])
           pin == b1.made[1]
           b == addPin(b1, pin)
       IN  Commit(b) /\ Mutated(b, "addPin", pin.id)
    /\ Spent /\ UNCHANGED env /\ Controller

\* the drag's mouseup: state.updatePin(pin.id, {x, y})
MovePin(id, pt) ==
    /\ CanPush
    /\ id \in LiveIds
    /\ LET b == updatePin(Cur, id, [x |-> pt[1], y |-> pt[2]])
       IN  Commit(b) /\ Mutated(b, "updatePin", id)
    /\ Spent /\ UNCHANGED env /\ Controller

\* textarea.oninput after one more key: state.updatePin(pin.id, {content})
TypeText(id, key) ==
    /\ CanPush
    /\ id \in IdsOfType("text")
    /\ LET b == updatePin(Cur, id, [content |-> Append(MapGet(pins, id).content, key)])
       IN  Commit(b) /\ Mutated(b, "updatePin", id)
    /\ Spent /\ UNCHANGED env /\ Controller

\* BoardRenderer.addTag(pinId) with the prompt answered tag
AddTag(id, tag) ==
    /\ CanPush
    /\ id \in LiveIds
    /\ ~Includes(MapGet(pins, id).tags, tag)
    /\ LET b == updatePin(Cur, id, [tags |-> Append(MapGet(pins, id).tags, tag)])
       IN  Commit(b) /\ Mutated(b, "updatePin", id)
    /\ Spent /\ UNCHANGED env /\ Controller

\* BoardRenderer.removeTag(pinId, tag): a click on a tag the pin shows
RemoveTag(id, tag) ==
    /\ CanPush
    /\ id \in LiveIds
    /\ Includes(MapGet(pins, id).tags, tag)
    /\ LET b == updatePin(Cur, id, [tags |-> Filter(MapGet(pins, id).tags, tag)])
       IN  Commit(b) /\ Mutated(b, "updatePin", id)
    /\ Spent /\ UNCHANGED env /\ Controller

\* BoardRenderer.addListItem(pinId)
AddListItem(id) ==
    /\ CanPush
    /\ id \in IdsOfType("list")
    /\ LET item == [text |-> <<>>, completed |-> FALSE]
           b == updatePin(Cur, id, [items |-> Append(MapGet(pins, id).items, item)])
       IN  Commit(b) /\ Mutated(b, "updatePin", id)
    /\ Spent /\ UNCHANGED env /\ Controller

\* checkbox.onchange of item index (0-based)
ToggleListItem(id, index) ==
    /\ CanPush
    /\ id \in IdsOfType("list")
    /\ index + 1 \in 1..Len(MapGet(pins, id).items)
    /\ LET items == MapGet(pins, id).items
           b == updatePin(Cur, id,
                    [items |-> [items EXCEPT ![index + 1].completed = ~@]])
       IN  Commit(b) /\ Mutated(b, "updatePin", id)
    /\ Spent /\ UNCHANGED env /\ Controller

\* text.oninput of item index after one more key
EditListItem(id, index, key) ==
    /\ CanPush
    /\ id \in IdsOfType("list")
    /\ index + 1 \in 1..Len(MapGet(pins, id).items)
    /\ LET items == MapGet(pins, id).items
           b == updatePin(Cur, id,
                    [items |-> [items EXCEPT ![index + 1].text = Append(@, key)]])
       IN  Commit(b) /\ Mutated(b, "updatePin", id)
    /\ Spent /\ UNCHANGED env /\ Controller

\* BoardRenderer.deleteListItem(pinId, index)
DeleteListItem(id, index) ==
    /\ CanPush
    /\ id \in IdsOfType("list")
    /\ index + 1 \in 1..Len(MapGet(pins, id).items)
    /\ LET b == updatePin(Cur, id,
                    [items |-> RemoveAt(MapGet(pins, id).items, index + 1)])
       IN  Commit(b) /\ Mutated(b, "updatePin", id)
    /\ Spent /\ UNCHANGED env /\ Controller

\* BoardRenderer.deletePin(pinId), confirmed
DeletePin(id) ==
    /\ CanPush
    /\ id \in LiveIds
    /\ LET b == deletePin(Cur, id)
       IN  Commit(b) /\ Mutated(b, "deletePin", id)
    /\ Spent /\ UNCHANGED env /\ Controller

\* undoBtn.onclick, Ctrl+Z
Undo ==
    /\ CanTravel
    /\ Commit(undo(Cur))
    /\ Traveled("undo")
    /\ SpentTravel /\ UNCHANGED env /\ Controller

\* redoBtn.onclick, Ctrl+Y
Redo ==
    /\ CanTravel
    /\ Commit(redo(Cur))
    /\ Traveled("redo")
    /\ SpentTravel /\ UNCHANGED env /\ Controller

\* the live pins and viewport
LiveBoard == [pins |-> pins, zoom |-> zoom, panX |-> panX, panY |-> panY]

\* confirmSnapshot.onclick with a non-empty name
SaveSnapshot(name) ==
    /\ CanOp
    /\ LET b == saveSnapshot(Cur, name)
       IN  Commit(IF b.thrown THEN b ELSE [b EXCEPT !.snapLog = Append(@, LiveBoard)])
    /\ Other("saveSnapshot", <<>>, FALSE)
    /\ Spent /\ UNCHANGED env /\ Controller

\* loadBtn.onclick of the snapshot listed at index
LoadSnapshot(index) ==
    /\ CanPush
    /\ snapshotsParse(Cur)
    /\ index + 1 \in 1..Len(getSnapshots(Cur))
    /\ Commit(loadSnapshot(Cur, index))
    /\ lastOp' = Op("loadSnapshot", <<"snapshot", index>>, TRUE)
    /\ beforeMut' = pins
    /\ phase' = "off"
    /\ trail' = <<>>
    /\ travelPos' = 0
    /\ Spent /\ UNCHANGED env /\ Controller

\* state.loadSnapshot(index) for an index the list does not reach
LoadMissingSnapshot(index) ==
    /\ CanOp
    /\ snapshotsParse(Cur)
    /\ index + 1 \notin 1..Len(getSnapshots(Cur))
    /\ Commit(loadSnapshot(Cur, index))
    /\ Other("loadMissingSnapshot", <<"snapshot", index>>, FALSE)
    /\ Spent /\ UNCHANGED env /\ Controller

\* deleteBtn.onclick of the snapshot listed at index, confirmed
DeleteSnapshot(index) ==
    /\ CanOp
    /\ snapshotsParse(Cur)
    /\ index + 1 \in 1..Len(getSnapshots(Cur))
    /\ Commit([deleteSnapshot(Cur, index) EXCEPT !.snapLog = RemoveAt(@, index + 1)])
    /\ Other("deleteSnapshot", <<"snapshot", index>>, FALSE)
    /\ Spent /\ UNCHANGED env /\ Controller

\* the wheel handler: deltaY > 0 zooms out by 0.9, otherwise in by 1.1
Wheel(deltaYPositive, mouse) ==
    /\ CanOp
    /\ LET delta == IF deltaYPositive THEN Rat(9, 10) ELSE Rat(11, 10)

           newZoom == ClampZoom(RMul(zoom, delta))
           zoomRatio == RDiv(newZoom, zoom)
           mouseX == RInt(mouse[1])
           mouseY == RInt(mouse[2])
           b == [Cur EXCEPT !.panX = RSub(mouseX, RMul(RSub(mouseX, panX), zoomRatio)),
                            !.panY = RSub(mouseY, RMul(RSub(mouseY, panY), zoomRatio)),
                            !.zoom = newZoom]
       IN  Commit(saveToStorage(b))
    /\ Other("wheel", <<mouse[1], mouse[2], IF deltaYPositive THEN -1 ELSE 1>>, FALSE)
    /\ Spent /\ UNCHANGED env /\ Controller

\* CanvasController.zoom(factor) on the board b
zoomBy(b, factor) == saveToStorage([b EXCEPT !.zoom = ClampZoom(RMul(@, factor))])

\* the zoom buttons and the + and - keys
Zoom(factor) ==
    /\ CanOp
    /\ Commit(zoomBy(Cur, factor))
    /\ Other("zoom", factor, FALSE)
    /\ Spent /\ UNCHANGED env /\ Controller

\* CanvasController.resetZoom()
ResetZoom ==
    /\ CanOp
    /\ Commit(saveToStorage([Cur EXCEPT !.zoom = RInt(1), !.panX = RInt(0),
                                        !.panY = RInt(0)]))
    /\ Other("resetZoom", <<>>, FALSE)
    /\ Spent /\ UNCHANGED env /\ Controller

\* mousedown on the container or the canvas
PanStart(client) ==
    /\ CanOp
    /\ ~isPanning
    /\ isPanning' = TRUE
    /\ startX' = RSub(RInt(client[1]), panX)
    /\ startY' = RSub(RInt(client[2]), panY)
    /\ Commit(Cur)
    /\ Other("panStart", <<>>, FALSE)
    /\ Spent /\ UNCHANGED env

\* mousemove while panning
PanMove(client) ==
    /\ CanOp
    /\ isPanning
    /\ Commit([Cur EXCEPT !.panX = RSub(RInt(client[1]), startX),
                          !.panY = RSub(RInt(client[2]), startY)])
    /\ Other("panMove", <<>>, FALSE)
    /\ Spent /\ UNCHANGED env /\ Controller

\* mouseup while panning
PanEnd ==
    /\ CanOp
    /\ isPanning
    /\ isPanning' = FALSE
    /\ Commit(saveToStorage(Cur))
    /\ Other("panEnd", <<>>, FALSE)
    /\ Spent /\ UNCHANGED <<env, startX, startY>>

\* PinFactory.createTextPin / createImagePin / createListPin(x, y), alone
CreatePin(type, pt) ==
    /\ CanOp
    /\ nextPinId <= env.pins
    /\ Commit(PinFactoryCreate(Cur, type, pt[1], pt[2]))
    /\ Other("createPin", <<type, pt[1], pt[2]>>, FALSE)
    /\ Spent /\ UNCHANGED env /\ Controller

\* state.updatePin(id, {x, y}) for an id the Map no longer holds: the mouseup
\* of a drag whose pin an undo removed meanwhile
UpdateMissingPin(id, pt) ==
    /\ CanOp
    /\ id \in assigned \ LiveIds
    /\ Commit(updatePin(Cur, id, [x |-> pt[1], y |-> pt[2]]))
    /\ Other("updateMissing", id, FALSE)
    /\ Spent /\ UNCHANGED env /\ Controller

\* state.deletePin(id) for an id the Map does not hold
DeleteMissingPin(id) ==
    /\ CanOp
    /\ id \notin LiveIds
    /\ Commit(deletePin(Cur, id))
    /\ lastOp' = Op("deleteMissing", id, TRUE)
    /\ phase' = "off"
    /\ trail' = <<>>
    /\ travelPos' = 0
    /\ Spent /\ UNCHANGED <<beforeMut, env>> /\ Controller

\* ToolbarController.showLoadModal(): state.getSnapshots() and the list
ShowLoadModal ==
    /\ CanOp
    /\ Commit(IF snapshotsParse(Cur) THEN Cur ELSE Throw(Cur))
    /\ Other("showLoadModal", <<>>, FALSE)
    /\ Spent /\ UNCHANGED env /\ Controller

\* the page is loaded again: DOMContentLoaded builds a new BoardState and a new
\* CanvasController over the localStorage as found, each record as the page
\* left it or unreadable
Reload(stateFound, snapshotsFound) ==
    /\ CanOp
    /\ LET ls == [freeboard_state |-> stateFound, freeboard_snapshots |-> snapshotsFound]
           b == constructor(ls, Observers)
       IN  /\ Commit(b)
           /\ lastOp' = Op("reload", <<>>, b.history # <<>>)
    /\ isPanning' = FALSE
    /\ startX' = RInt(0)
    /\ startY' = RInt(0)
    /\ phase' = "off"
    /\ trail' = <<>>
    /\ travelPos' = 0
    /\ Spent /\ UNCHANGED <<beforeMut, env>>

\* input.onchange: handleImageUpload(event, pinId) starts a FileReader for a
\* file whose type starts with image/ (the type is kept as <<type, subtype>>);
\* the input exists while the pin is drawn with its placeholder
SelectFile(id, file) ==
    /\ CanOp
    /\ id \in IdsOfType("image")
    /\ MapGet(pins, id).imageUrl = Null
    /\ Len(uploads) < MaxUploads
    /\ Commit([Cur EXCEPT !.uploads =
                  IF file.type[1] = "image"
                  THEN Append(@, [id |-> id, file |-> file, stage |-> "reading"])
                  ELSE @])
    /\ Other("selectFile", <<id, file.url>>, FALSE)
    /\ Spent /\ UNCHANGED env /\ Controller

\* reader.onload: img.src = e.target.result
ReaderLoaded(k) ==
    /\ k \in 1..Len(uploads)
    /\ uploads[k].stage = "reading"
    /\ Commit([Cur EXCEPT !.uploads[k].stage = "decoding"])
    /\ Other("readerLoaded", <<k>>, FALSE)
    /\ UNCHANGED <<used, env>> /\ Controller

\* img.onload
ImageLoaded(k) ==
    /\ k \in 1..Len(uploads)
    /\ uploads[k].stage = "decoding"
    /\ LET b == imageLoaded(Cur, k)
       IN  /\ Commit(b)
           /\ lastOp' = Op("imageLoaded", <<k>>, MapHas(pins, uploads[k].id))
           /\ beforeMut' = pins
           /\ phase' = "off"
           /\ trail' = <<>>
           /\ travelPos' = 0
    /\ UNCHANGED <<used, env>> /\ Controller

\* the resize handle dragged towards the size want and released
ResizePin(id, want) ==
    /\ CanPush
    /\ id \in LiveIds
    /\ LET b == updatePin(Cur, id, resizedTo(MapGet(pins, id), want))
       IN  Commit(b) /\ Mutated(b, "updatePin", id)
    /\ Spent /\ UNCHANGED env /\ Controller

\* what localStorage.getItem can find when the page loads
FoundRecords(item) == {item, Item(Malformed)}

(***************************************************************************)
(* The inputs and the specifications                                       *)
(***************************************************************************)
PinTypes == {"text", "image", "list"}
SpawnPoints == {<<100, 100>>}
DropPoints == {<<140, 120>>}
Keys == {"a"}
TagNames == {"work", "all"}
SnapshotNames == {"s1"}
MousePoints == {<<50, 50>>}
PanPoints == {<<80, 60>>}
ZoomFactors == {Rat(12, 10), Rat(8, 10)}
AllIds == {PinId(n) : n \in 1..(MaxPins + 1)}
ItemIndexes == 0..MaxOps
Files == {[url |-> "data:small", type |-> <<"image", "png">>, width |-> 200, height |-> 150],
          [url |-> "data:large", type |-> <<"image", "png">>, width |-> 1000, height |-> 800],
          [url |-> "data:notes", type |-> <<"text", "plain">>, width |-> 0, height |-> 0]}
WantedSizes == {<<150, 80>>, <<700, 500>>}
FactoryPoints == {<<100, 100>>, <<0, 0>>, <<-20, 35>>}

InitOf(b, e) ==
        /\ pins = b.pins
        /\ history = b.history
        /\ historyIndex = b.historyIndex
        /\ tags = b.tags
        /\ nextPinId = b.nextPinId
        /\ zoom = b.zoom
        /\ panX = b.panX
        /\ panY = b.panY
        /\ localStorage = b.ls
        /\ aliasOf = b.aliasOf
        /\ sharedIds = b.sharedIds
        /\ pushes = b.pushes
        /\ shifted = b.shifted
        /\ preSave = b.preSave
        /\ thrown = b.thrown
        /\ assigned = b.assigned
        /\ made = b.made
        /\ snapLog = b.snapLog
        /\ uploads = b.uploads
        /\ isPanning = FALSE
        /\ startX = RInt(0)
        /\ startY = RInt(0)
        /\ lastOp = Op("construct", <<>>, TRUE)
        /\ beforeMut = <<>>
        /\ trail = <<b.pins>>
        /\ phase = "mutating"
        /\ travelPos = 0
        /\ used = [ops |-> 0, travels |-> 0]
        /\ env = e

InitWith(e) == InitOf(construct, e)

\* every handler, a few calls of each
Init == InitWith([pins |-> MaxPins, ops |-> MaxOps, travels |-> MaxTravels, branch |-> TRUE])

Next ==
    \/ \E type \in PinTypes, pt \in SpawnPoints : AddPin(type, pt)
    \/ \E id \in AllIds, pt \in DropPoints : MovePin(id, pt)
    \/ \E id \in AllIds, key \in Keys : TypeText(id, key)
    \/ \E id \in AllIds, tag \in TagNames : AddTag(id, tag)
    \/ \E id \in AllIds, tag \in TagNames : RemoveTag(id, tag)
    \/ \E id \in AllIds : AddListItem(id)
    \/ \E id \in AllIds, index \in ItemIndexes : ToggleListItem(id, index)
    \/ \E id \in AllIds, index \in ItemIndexes, key \in Keys : EditListItem(id, index, key)
    \/ \E id \in AllIds, index \in ItemIndexes : DeleteListItem(id, index)
    \/ \E id \in AllIds : DeletePin(id)
    \/ Undo
    \/ Redo
    \/ \E name \in SnapshotNames : SaveSnapshot(name)
    \/ \E index \in ItemIndexes : LoadSnapshot(index)
    \/ \E index \in ItemIndexes : DeleteSnapshot(index)
    \/ \E down \in BOOLEAN, mouse \in MousePoints : Wheel(down, mouse)
    \/ \E factor \in ZoomFactors : Zoom(factor)
    \/ ResetZoom
    \/ \E client \in MousePoints : PanStart(client)
    \/ \E client \in PanPoints : PanMove(client)
    \/ PanEnd
    \/ \E id \in AllIds, pt \in DropPoints : UpdateMissingPin(id, pt)
    \/ \E id \in AllIds : DeleteMissingPin(id)
    \/ ShowLoadModal
    \/ \E stateFound \in FoundRecords(localStorage.freeboard_state),
          snapshotsFound \in FoundRecords(localStorage.freeboard_snapshots) :
            Reload(stateFound, snapshotsFound)
    \/ \E index \in ItemIndexes : LoadMissingSnapshot(index)
    \/ \E type \in PinTypes, pt \in SpawnPoints : CreatePin(type, pt)
    \/ \E id \in AllIds, file \in Files : SelectFile(id, file)
    \/ \E k \in 1..MaxUploads : ReaderLoaded(k)
    \/ \E k \in 1..MaxUploads : ImageLoaded(k)
    \/ \E id \in AllIds, want \in WantedSizes : ResizePin(id, want)

Spec == Init /\ [][Next]_vars

\* the history engine: pins created, edited, moved and deleted, undo and redo,
\* the zoom button between them, named snapshots saved and loaded
NextHistory ==
    \/ \E pt \in SpawnPoints : AddPin("text", pt)
    \/ \E id \in AllIds, pt \in DropPoints : MovePin(id, pt)
    \/ \E id \in AllIds, key \in Keys : TypeText(id, key)
    \/ \E id \in AllIds : DeletePin(id)
    \/ Undo
    \/ Redo
    \/ \E name \in SnapshotNames : SaveSnapshot(name)
    \/ \E index \in ItemIndexes : LoadSnapshot(index)
    \/ Zoom(Rat(12, 10))

SpecHistory == Init /\ [][NextHistory]_vars

\* the tag set: pins created, tagged, untagged and deleted, undo and redo
NextTags ==
    \/ \E pt \in SpawnPoints : AddPin("text", pt)
    \/ \E id \in AllIds, tag \in TagNames : AddTag(id, tag)
    \/ \E id \in AllIds, tag \in TagNames : RemoveTag(id, tag)
    \/ \E id \in AllIds : DeletePin(id)
    \/ Undo
    \/ Redo

InitTags ==
    InitWith([pins |-> MaxPins, ops |-> MaxTagOps, travels |-> MaxTravels, branch |-> TRUE])

SpecTags == InitTags /\ [][NextTags]_vars

\* the history cap: one text pin typed into and deleted, then undo and redo
InitCap == InitWith([pins |-> 1, ops |-> CapPushes, travels |-> -1, branch |-> FALSE])

NextCap ==
    \/ \E pt \in SpawnPoints : AddPin("text", pt)
    \/ \E id \in AllIds, key \in Keys : TypeText(id, key)
    \/ \E id \in AllIds : DeletePin(id)
    \/ Undo
    \/ Redo

SpecCap == InitCap /\ [][NextCap]_vars

\* the stored record: pins created, edited and deleted, the viewport zoomed,
\* reset and panned, undo and redo, snapshots saved and loaded
InitStorage ==
    InitWith([pins |-> MaxPins, ops |-> MaxStoreOps, travels |-> MaxStoreTravels,
              branch |-> TRUE])

NextStorage ==
    \/ \E pt \in SpawnPoints : AddPin("text", pt)
    \/ \E id \in AllIds, key \in Keys : TypeText(id, key)
    \/ \E id \in AllIds : DeletePin(id)
    \/ Undo
    \/ Redo
    \/ \E name \in SnapshotNames : SaveSnapshot(name)
    \/ \E index \in ItemIndexes : LoadSnapshot(index)
    \/ \E mouse \in MousePoints : Wheel(FALSE, mouse)
    \/ Zoom(Rat(8, 10))
    \/ ResetZoom
    \/ \E client \in MousePoints : PanStart(client)
    \/ \E client \in PanPoints : PanMove(client)
    \/ PanEnd

SpecStorage == InitStorage /\ [][NextStorage]_vars

\* the round trip: pins of every kind with their payloads, the viewport
\* zoomed and panned, the page loaded again over the record as left
InitRoundTrip ==
    InitWith([pins |-> MaxPins, ops |-> MaxRoundTripOps, travels |-> MaxStoreTravels,
              branch |-> TRUE])

NextRoundTrip ==
    \/ \E type \in PinTypes, pt \in SpawnPoints : AddPin(type, pt)
    \/ \E id \in AllIds, pt \in DropPoints : MovePin(id, pt)
    \/ \E id \in AllIds, key \in Keys : TypeText(id, key)
    \/ \E id \in AllIds : AddListItem(id)
    \/ \E id \in AllIds : AddTag(id, "work")
    \/ Undo
    \/ \E mouse \in MousePoints : Wheel(FALSE, mouse)
    \/ \E client \in MousePoints : PanStart(client)
    \/ \E client \in PanPoints : PanMove(client)
    \/ Reload(localStorage.freeboard_state, localStorage.freeboard_snapshots)

SpecRoundTrip == InitRoundTrip /\ [][NextRoundTrip]_vars

\* page loads over records as left or unreadable, calls on ids that are gone
InitRestart ==
    InitWith([pins |-> MaxPins, ops |-> MaxRestartOps, travels |-> MaxTravels,
              branch |-> TRUE])

NextRestart ==
    \/ \E pt \in SpawnPoints : AddPin("text", pt)
    \/ \E id \in AllIds : DeletePin(id)
    \/ Undo
    \/ Redo
    \/ \E name \in SnapshotNames : SaveSnapshot(name)
    \/ \E index \in ItemIndexes : LoadSnapshot(index)
    \/ ShowLoadModal
    \/ Zoom(Rat(12, 10))
    \/ \E id \in AllIds, pt \in DropPoints : UpdateMissingPin(id, pt)
    \/ \E id \in AllIds : DeleteMissingPin(id)
    \/ \E stateFound \in FoundRecords(localStorage.freeboard_state),
          snapshotsFound \in FoundRecords(localStorage.freeboard_snapshots) :
            Reload(stateFound, snapshotsFound)

SpecRestart == InitRestart /\ [][NextRestart]_vars

\* the viewport: the board as it is after a number of clicks on a zoom button,
\* then the wheel, the zoom buttons and keys, reset, undo and redo over a pin
\* creation, snapshots and page loads
RECURSIVE Clicks(_, _, _)
Clicks(b, factor, n) == IF n = 0 THEN b ELSE Clicks(zoomBy(b, factor), factor, n - 1)

ZoomStarts == {<<Rat(12, 10), 0>>, <<Rat(12, 10), ClicksToTop>>,
               <<Rat(8, 10), ClicksToBottom>>}

InitZoom ==
    \E start \in ZoomStarts :
        InitOf(Clicks(construct, start[1], start[2]),
               [pins |-> 1, ops |-> MaxZoomOps, travels |-> MaxTravels, branch |-> TRUE])

NextZoom ==
    \/ \E down \in BOOLEAN, mouse \in MousePoints : Wheel(down, mouse)
    \/ \E factor \in ZoomFactors : Zoom(factor)
    \/ ResetZoom
    \/ \E pt \in SpawnPoints : AddPin("text", pt)
    \/ Undo
    \/ Redo
    \/ \E name \in SnapshotNames : SaveSnapshot(name)
    \/ \E index \in ItemIndexes : LoadSnapshot(index)
    \/ Reload(localStorage.freeboard_state, localStorage.freeboard_snapshots)

SpecZoom == InitZoom /\ [][NextZoom]_vars

\* named snapshots saved, loaded and deleted between edits, undo and redo, the
\* zoom button and page loads over a board-state record as left or unreadable
InitSnapshots ==
    InitWith([pins |-> MaxPins, ops |-> MaxSnapOps, travels |-> MaxStoreTravels,
              branch |-> TRUE])

NextSnapshots ==
    \/ \E pt \in SpawnPoints : AddPin("text", pt)
    \/ \E id \in AllIds, pt \in DropPoints : MovePin(id, pt)
    \/ \E id \in AllIds : DeletePin(id)
    \/ Undo
    \/ Redo
    \/ \E name \in SnapshotNames : SaveSnapshot(name)
    \/ \E index \in ItemIndexes : LoadSnapshot(index)
    \/ \E index \in ItemIndexes : LoadMissingSnapshot(index)
    \/ \E index \in ItemIndexes : DeleteSnapshot(index)
    \/ Zoom(Rat(12, 10))
    \/ \E stateFound \in FoundRecords(localStorage.freeboard_state) :
            Reload(stateFound, localStorage.freeboard_snapshots)

SpecSnapshots == InitSnapshots /\ [][NextSnapshots]_vars

\* image uploads in flight while the pin is resized, deleted, undone and redone
InitUpload ==
    InitWith([pins |-> MaxPins, ops |-> MaxUploadOps, travels |-> MaxUploadTravels,
              branch |-> TRUE])

NextUpload ==
    \/ \E pt \in SpawnPoints : AddPin("image", pt)
    \/ \E id \in AllIds, file \in Files : SelectFile(id, file)
    \/ \E k \in 1..MaxUploads : ReaderLoaded(k)
    \/ \E k \in 1..MaxUploads : ImageLoaded(k)
    \/ \E id \in AllIds, want \in WantedSizes : ResizePin(id, want)
    \/ \E id \in AllIds : DeletePin(id)
    \/ Undo
    \/ Redo

SpecUpload == InitUpload /\ [][NextUpload]_vars

\* PinFactory: pins of every kind made at several points, alone and on the
\* way into the board
InitFactory ==
    InitWith([pins |-> MaxFactoryOps, ops |-> MaxFactoryOps, travels |-> MaxTravels,
              branch |-> TRUE])

NextFactory ==
    \/ \E type \in PinTypes, pt \in FactoryPoints : CreatePin(type, pt)
    \/ \E type \in PinTypes, pt \in FactoryPoints : AddPin(type, pt)

SpecFactory == InitFactory /\ [][NextFactory]_vars

(***************************************************************************)
(* The claims                                                              *)
(***************************************************************************)
Mutations == {"addPin", "updatePin", "deletePin"}

\* the entry saveState() pushes for the live board
LiveEntry == [pins |-> pins, zoom |-> zoom, panX |-> panX, panY |-> panY]

TagsOf(m) == UNION {Range(m[i][2].tags) : i \in 1..Len(m)}

\* C1: on a board started empty, after N < 50 pin mutations and then any number
\* of undo() and redo() calls, the live pins are the collection as it was right
\* after the mutation the calls lead back to: N undos give the empty board, N
\* redos after them the board after the N-th mutation.
C1_UndoRedoReplayMutations ==
    (phase # "off" /\ Len(trail) - 1 < maxHistory) => pins = trail[travelPos + 1]

\* C1 witness: 49 mutations, then 49 undos: the board is empty again.
C1_Witness ==
    /\ phase = "traveling"
    /\ lastOp.name = "undo"
    /\ Len(trail) - 1 = maxHistory - 1
    /\ trail[Len(trail)] # <<>>
    /\ travelPos = 0
    /\ pins = <<>>

\* C2: one undo() right after a successful addPin, updatePin or deletePin makes
\* the live pins what they were immediately before that mutation, also when
\* undo() or redo() ran earlier.
C2_UndoRevertsLastMutation ==
    [][(lastOp.name \in Mutations /\ lastOp'.name = "undo") => pins' = beforeMut]_vars

\* C3: no operation changes a history entry between its push and its eviction or
\* truncation: a step without a push leaves the history as it is, and a push
\* leaves the entries up to the cursor as they were (moved down by one when the
\* oldest entry is evicted).
C3_HistoryEntriesImmutable ==
    [][IF pushes' = pushes
       THEN history' = history
       ELSE \A i \in 1..(historyIndex + 1) :
                LET j == i - (shifted' - shifted)
                IN  j >= 1 => history'[j] = history[i]]_vars

\* C4: the history never holds more than 50 entries.
C4_HistoryAtMostFifty == Len(history) <= maxHistory

\* C4 witness: the history is full and an entry has been evicted.
C4_Witness == Len(history) = maxHistory /\ shifted > 0

\* C5: a save into a full history with the cursor on the last entry evicts the
\* oldest entry, keeps the other 49 in order, appends the new snapshot and leaves
\* the cursor at 49; a save that leaves fewer than 50 entries after truncation
\* evicts nothing and advances the cursor by exactly one.
C5_SaveAtCap ==
    lastOp.saved =>
        LET h0 == preSave.history
            i0 == preSave.historyIndex
        IN  /\ (Len(h0) = maxHistory /\ i0 = maxHistory - 1) =>
                /\ Len(history) = maxHistory
                /\ \A k \in 1..(maxHistory - 1) : history[k] = h0[k + 1]
                /\ history[maxHistory] = LiveEntry
                /\ historyIndex = maxHistory - 1
            /\ i0 + 1 < maxHistory =>
                /\ Len(history) = i0 + 2
                /\ \A k \in 1..(i0 + 1) : history[k] = h0[k]
                /\ history[i0 + 2] = LiveEntry
                /\ historyIndex = i0 + 1

\* C5 witness: a save into a full history has just evicted the oldest entry.
C5_Witness ==
    /\ lastOp.saved
    /\ Len(preSave.history) = maxHistory
    /\ preSave.historyIndex = maxHistory - 1
    /\ history[1] = preSave.history[2]
    /\ history[1] # preSave.history[1]

\* C6: a save with the cursor at index i below the last entry drops every entry
\* after i: the history becomes the entries 0..i followed by the new snapshot,
\* the cursor is on it and redo() changes nothing; construct, mutate, undo,
\* mutate leaves 2 entries.
C6_SaveTruncatesRedoTail ==
    lastOp.saved =>
        LET h0 == preSave.history
            i0 == preSave.historyIndex
        IN  i0 < Len(h0) - 1 =>
                /\ history = Append(SubSeq(h0, 1, i0 + 1), LiveEntry)
                /\ historyIndex = Len(history) - 1
                /\ redo(Cur) = Cur

\* C6 witness: construct, one mutation, undo, one mutation: 2 entries, not 3.
C6_Witness ==
    /\ lastOp.saved
    /\ pushes = 3
    /\ used.travels = 1
    /\ Len(preSave.history) = 2
    /\ preSave.historyIndex = 0
    /\ Len(history) = 2

\* C7: undo() at index 0 and redo() on the last entry change nothing: pins,
\* viewport, history, cursor, tag set and stored records stay as they are.
C7_UndoRedoAtEndsAreNoOps ==
    [][(\/ lastOp'.name = "undo" /\ historyIndex <= 0
        \/ lastOp'.name = "redo" /\ historyIndex >= Len(history) - 1)
       => UNCHANGED <<pins, zoom, panX, panY, history, historyIndex, tags,
                      localStorage>>]_vars

\* C7 witness: undo() was called at index 0 while the zoom differed from the
\* zoom the entry at index 0 records.
C7_Witness ==
    /\ lastOp.name = "undo"
    /\ historyIndex = 0
    /\ zoom # history[1].zoom

\* C8: an effective undo() moves the cursor down by one and an effective redo()
\* up by one; the live pins and viewport become exactly those of the entry at
\* the new cursor, and the history entries stay as they are, none pushed.
C8_TravelRestoresWholesale ==
    [][(\/ lastOp'.name = "undo" /\ historyIndex > 0
        \/ lastOp'.name = "redo" /\ historyIndex < Len(history) - 1)
       => /\ historyIndex' = historyIndex + (IF lastOp'.name = "undo" THEN -1 ELSE 1)
          /\ history' = history
          /\ pushes' = pushes
          /\ pins' = history[historyIndex' + 1].pins
          /\ zoom' = history[historyIndex' + 1].zoom
          /\ panX' = history[historyIndex' + 1].panX
          /\ panY' = history[historyIndex' + 1].panY]_vars

\* C8 witness: an undo() has replaced a live board whose pins and zoom both
\* differed from the entry it restored.
C8_Witness ==
    /\ lastOp.name = "undo"
    /\ historyIndex + 2 <= Len(history)
    /\ pins = history[historyIndex + 1].pins
    /\ zoom = history[historyIndex + 1].zoom
    /\ MapKeys(history[historyIndex + 2].pins) \ MapKeys(pins) # {}
    /\ zoom # history[historyIndex + 2].zoom

\* C9: after every operation that can change pins or their tags the tag set is
\* "all" together with the tags of all live pins.
C9_TagSetIsDerived == Range(tags) = {"all"} \cup TagsOf(pins)

\* C10: deletePin(id) removes the pin; afterwards a tag the deleted pin carried
\* is in the tag set exactly if a remaining pin carries it, "all" always is, and
\* deleting the only pin leaves {"all"}.
C10_DeleteUpdatesTagSet ==
    lastOp.name = "deletePin" =>
        LET carried == Range(MapGet(beforeMut, lastOp.arg).tags)
        IN  /\ ~MapHas(pins, lastOp.arg)
            /\ MapKeys(pins) = MapKeys(beforeMut) \ {lastOp.arg}
            /\ "all" \in Range(tags)
            /\ \A t \in carried \ {"all"} : t \in Range(tags) <=> t \in TagsOf(pins)
            /\ pins = <<>> => Range(tags) = {"all"}

\* C10 witness: two pins carried "work"; one was deleted and "work" stays.
C10_Witness ==
    /\ lastOp.name = "deletePin"
    /\ "work" \in Range(MapGet(beforeMut, lastOp.arg).tags)
    /\ pins # <<>>
    /\ "work" \in Range(tags)

\* what JSON.parse gives for a stored board-state record
StoredState == localStorage.freeboard_state

StoredDecodesToLive ==
    /\ StoredState # NoItem
    /\ StoredState[1].parses
    /\ LET data == StoredState[1].value
       IN  /\ MapFromEntries(JSONParseEntries(data.pins)) = pins
           /\ data.zoom = zoom
           /\ data.panX = panX
           /\ data.panY = panY
           /\ data.nextPinId = nextPinId

C12_StorageRoundTrip ==
    LET b == constructor(saveToStorage(Cur).ls, Observers)
    IN  /\ b.pins = pins
        /\ b.zoom = zoom
        /\ b.panX = panX
        /\ b.panY = panY
        /\ b.nextPinId = nextPinId

\* C12 witness: the page was loaded again over the record of a board with a
\* list pin that has an item and with a zoomed, moved viewport.
C12_Witness ==
    /\ lastOp.name = "reload"
    /\ \E i \in 1..Len(pins) : pins[i][2].type = "list" /\ pins[i][2].items # <<>>
    /\ zoom # RInt(1)
    /\ panX # RInt(0)
    /\ nextPinId > 1

\* C13: a BoardState constructed with no stored record has no pins, zoom 1, pan
\* (0,0), next id 1 and one history entry, the empty board, with the cursor at
\* 0; constructed over a well-formed record it has the stored pins, viewport
\* and next id and one history entry equal to that state, with the cursor at 0.
C13_ConstructionBaselines ==
    lastOp.name \in {"construct", "reload"} =>
        /\ StoredState = NoItem =>
                /\ pins = <<>>
                /\ zoom = RInt(1) /\ panX = RInt(0) /\ panY = RInt(0)
                /\ nextPinId = 1
                /\ history = <<LiveEntry>>
                /\ historyIndex = 0
        /\ (IF StoredState = NoItem THEN FALSE ELSE StoredState[1].parses) =>
                /\ StoredDecodesToLive
                /\ history = <<LiveEntry>>
                /\ historyIndex = 0

\* C13 witness: the page was loaded again over the record of a board with a
\* pin and a zoomed viewport.
C13_Witness ==
    /\ lastOp.name = "reload"
    /\ StoredDecodesToLive
    /\ pins # <<>>
    /\ zoom # RInt(1)
    /\ Len(history) = 1

\* C14: when the stored board-state record cannot be decoded, construction
\* ends with no pins, the default viewport and one baseline history entry with
\* the cursor at 0.
C14_DecodeFailureBaselines ==
    (/\ lastOp.name = "reload"
     /\ StoredState # NoItem
     /\ ~StoredState[1].parses)
    => /\ pins = <<>>
       /\ zoom = RInt(1) /\ panX = RInt(0) /\ panY = RInt(0)
       /\ Len(history) = 1
       /\ historyIndex = 0

\* C15: no BoardState operation ends with an exception raised to its caller,
\* whatever the stored board-state record and snapshot-list record hold.
C15_NoFailurePropagates == thrown = FALSE

\* C16: the next-id counter never decreases, and the id PinFactory gives a new
\* pin was never given before and is not the id of a live pin.
C16_IdsAreFresh ==
    [][/\ nextPinId' >= nextPinId
       /\ lastOp'.name = "addPin" =>
              /\ lastOp'.arg \notin assigned
              /\ ~MapHas(pins, lastOp'.arg)]_vars

\* C17: updatePin and deletePin with an id the live collection does not hold
\* leave the pins, the history, the cursor and the stored records unchanged,
\* and getPin of such an id returns nothing.
C17_MissingIdIsNoOp ==
    [][/\ lastOp'.name \in {"updateMissing", "deleteMissing"} =>
              UNCHANGED <<pins, history, historyIndex, localStorage>>
       /\ \A id \in AllIds \ LiveIds : getPin(Cur, id) = Undefined]_vars

\* C18: the zoom is within [0.1, 3.0] in every reachable state.
C18_ZoomWithinBounds == RLe(ZoomMin, zoom) /\ RLe(zoom, ZoomMax)

\* C18 witness: a wheel step inward ended on the upper bound, which no product
\* of the zoom factors equals.
C18_Witness ==
    /\ lastOp.name = "wheel"
    /\ lastOp.arg[3] = 1
    /\ zoom = ZoomMax

\* the board coordinate under the container position m
BoardPoint(m, px, py, z) ==
    <<RDiv(RSub(RInt(m[1]), px), z), RDiv(RSub(RInt(m[2]), py), z)>>

\* C19: a zoom operation leaves the board coordinate under the pointer where
\* it was, and a zoom-in at 3.0 or a zoom-out at 0.1 leaves zoom, panX and
\* panY unchanged.
C19_PointerIsFixedPoint ==
    [][/\ lastOp'.name = "wheel" =>
              LET m == lastOp'.arg
              IN  /\ BoardPoint(m, panX', panY', zoom') = BoardPoint(m, panX, panY, zoom)
                  /\ (\/ m[3] = 1 /\ zoom = ZoomMax
                      \/ m[3] = -1 /\ zoom = ZoomMin) => UNCHANGED <<zoom, panX, panY>>
       /\ lastOp'.name = "zoom" =>
              /\ \A m \in MousePoints :
                     BoardPoint(m, panX', panY', zoom') = BoardPoint(m, panX, panY, zoom)
              /\ (\/ RLe(RInt(1), lastOp'.arg) /\ zoom = ZoomMax
                  \/ RLe(lastOp'.arg, RInt(1)) /\ zoom = ZoomMin)
                 => UNCHANGED <<zoom, panX, panY>>]_vars

\* C20: from zoom 1 and pan (0,0), with the pointer at (50,50), zooming in by
\* the factor 1.2 gives zoom 1.2 and pan (-10,-10).
C20_ZoomInExample ==
    [][(/\ lastOp'.name = "zoom"
        /\ lastOp'.arg = Rat(12, 10)
        /\ zoom = RInt(1) /\ panX = RInt(0) /\ panY = RInt(0)
        /\ <<50, 50>> \in MousePoints)
       => /\ zoom' = Rat(12, 10)
          /\ panX' = RInt(-10)
          /\ panY' = RInt(-10)]_vars

\* C21: saveSnapshot and deleteSnapshot change neither the live pins, the
\* viewport, the history, the cursor nor the stored board-state record, and
\* addPin, updatePin, deletePin, undo, redo and the viewport changes leave the
\* stored snapshot list as it is.
C21_SnapshotsApartFromHistory ==
    [][/\ lastOp'.name \in {"saveSnapshot", "deleteSnapshot"} =>
              /\ UNCHANGED <<pins, zoom, panX, panY, history, historyIndex>>
              /\ localStorage'.freeboard_state = localStorage.freeboard_state
       /\ lastOp'.name \in {"addPin", "updatePin", "deletePin", "undo", "redo",
                             "wheel", "zoom", "resetZoom", "panStart", "panMove",
                             "panEnd"} =>
              localStorage'.freeboard_snapshots = localStorage.freeboard_snapshots]_vars

\* C21 witness: a snapshot was deleted from the list while the board held a
\* pin and a history of several entries.
C21_Witness ==
    /\ lastOp.name = "deleteSnapshot"
    /\ pins # <<>>
    /\ Len(history) > 1
    /\ localStorage.freeboard_snapshots = Item(JSONText(<<>>))

\* C22: every listed snapshot holds the pins and viewport of the moment it was
\* saved, in the order of saving, whatever edits, undo, redo and further saves
\* came after; loadSnapshot makes the live pins, zoom, panX and panY exactly
\* those.
C22_SnapshotKeepsBoard ==
    /\ snapshotsParse(Cur) =>
           LET snapshots == getSnapshots(Cur)
           IN  /\ Len(snapshots) = Len(snapLog)
               /\ \A i \in 1..Len(snapLog) : snapshots[i].data = snapLog[i]
    /\ lastOp.name = "loadSnapshot" => LiveBoard = snapLog[lastOp.arg[2] + 1]

\* C22 witness: the first of two different snapshots was loaded over a board
\* that had changed since.
C22_Witness ==
    /\ lastOp.name = "loadSnapshot"
    /\ lastOp.arg[2] = 0
    /\ Len(snapLog) >= 2
    /\ snapLog[1] # snapLog[2]
    /\ beforeMut # pins

\* C23: createTextPin, createImagePin and createListPin(x, y) return a pin at
\* (x, y) of size 300x200, 300x300 and 300x250, with no tags and an empty
\* payload; the call raises the next-id counter by one and leaves the pins,
\* the history and the stored records alone.
C23_FactoryDefaults ==
    [][lastOp'.name = "createPin" =>
          LET type == lastOp'.arg[1]
              pin == made'[1]
          IN  /\ pin.type = type
              /\ pin.x = lastOp'.arg[2] /\ pin.y = lastOp'.arg[3]
              /\ pin.width = 300
              /\ pin.height = (CASE type = "text" -> 200
                                 [] type = "image" -> 300
                                 [] type = "list" -> 250)
              /\ pin.tags = <<>>
              /\ (CASE type = "text" -> pin.content = <<>>
                    [] type = "image" -> /\ pin.imageUrl = Null
                                         /\ pin.imageWidth = 0 /\ pin.imageHeight = 0
                    [] type = "list" -> pin.items = <<>>)
              /\ nextPinId' = nextPinId + 1
              /\ UNCHANGED <<pins, history, historyIndex, localStorage>>]_vars

\* C23 witness: the factory made an image pin, the third pin, away from the
\* default point.
C23_Witness ==
    /\ lastOp.name = "createPin"
    /\ made # <<>>
    /\ lastOp.arg = <<"image", -20, 35>>
    /\ made[1].id = PinId(3)
    /\ nextPinId = 4

\* C26: loadSnapshot(i) of a listed snapshot replaces the live pins and
\* viewport with the snapshot's, pushes one history entry after the entry at
\* the cursor (the redo tail is dropped), stores the board and recomputes the
\* tag set, and one undo() afterwards gives back the pins from just before the
\* load; loadSnapshot of an index without a snapshot changes nothing.
C26_LoadSnapshotIsOneMutation ==
    [][/\ lastOp'.name = "loadSnapshot" =>
              LET data == getSnapshots(Cur)[lastOp'.arg[2] + 1].data
              IN  /\ pins' = data.pins
                  /\ zoom' = data.zoom /\ panX' = data.panX /\ panY' = data.panY
                  /\ pushes' = pushes + 1
                  /\ history' = Append(SubSeq(history, 1, historyIndex + 1), LiveBoard')
                  /\ historyIndex' = Len(history') - 1
                  /\ StoredDecodesToLive'
                  /\ Range(tags') = {"all"} \cup TagsOf(pins')
                  /\ undo(Cur)'.pins = pins
       /\ lastOp'.name = "loadMissingSnapshot" =>
              UNCHANGED <<pins, zoom, panX, panY, history, historyIndex, tags,
                          localStorage>>]_vars

\* C24: every image pin that shows an image is at least as wide and as high
\* as the image, after the upload of an image of any natural size and after
\* resize, undo and redo.
C24_PinCoversImage ==
    \A i \in 1..Len(pins) :
        LET pin == pins[i][2]
        IN  (pin.type = "image" /\ pin.imageUrl # Null) =>
                /\ pin.width >= pin.imageWidth
                /\ pin.height >= pin.imageHeight

\* C25: selecting a file and the end of the read change no pin, no history
\* entry and no stored record; the end of the decode, on a live pin, writes
\* imageUrl, imageWidth, imageHeight, width and height of that file in one
\* update, which pushes one history entry recording them.
C25_UploadIsOneUpdate ==
    [][/\ lastOp'.name \in {"selectFile", "readerLoaded"} =>
              UNCHANGED <<pins, history, historyIndex, localStorage>>
       /\ (lastOp'.name = "imageLoaded" /\ lastOp'.saved) =>
              LET u == uploads[lastOp'.arg[1]]
                  old == MapGet(pins, u.id)
                  new == MapGet(pins', u.id)
              IN  /\ new.imageUrl = u.file.url
                  /\ new.imageWidth = u.file.width
                  /\ new.imageHeight = u.file.height
                  /\ new.width = Max(300, Min(600, u.file.width))
                  /\ new.height = Max(200, Min(600, u.file.height))
                  /\ \A k \in DOMAIN old \ {"imageUrl", "imageWidth", "imageHeight",
                                              "width", "height"} : new[k] = old[k]
                  /\ \A id \in MapKeys(pins) \ {u.id} :
                         MapGet(pins', id) = MapGet(pins, id)
                  /\ pushes' = pushes + 1
                  /\ history'[historyIndex' + 1].pins = pins']_vars

\* C25 witness: the second of two files selected for a pin finished decoding
\* while the first was still in flight.
C25_Witness ==
    /\ lastOp.name = "imageLoaded"
    /\ lastOp.saved
    /\ lastOp.arg = <<2>>
    /\ uploads[1].stage # "done"
    /\ uploads[1].id = uploads[2].id
    /\ MapGet(pins, uploads[2].id).imageUrl = uploads[2].file.url
    /\ beforeMut # pins

\* C28: the end of a decode for a pin that is no longer on the board changes
\* no pin, no history entry and no stored record, and raises nothing.
C28_LateCompletionIsQuiet ==
    [][(lastOp'.name = "imageLoaded" /\ ~lastOp'.saved) =>
          /\ UNCHANGED <<pins, history, historyIndex, localStorage>>
          /\ ~thrown']_vars

\* the image fields of every image pin come from one file, or from none
CoherentImages ==
    \A i \in 1..Len(pins) :
        LET pin == pins[i][2]
        IN  pin.type = "image" =>
                \/ pin.imageUrl = Null /\ pin.imageWidth = 0 /\ pin.imageHeight = 0
                \/ \E file \in Files : /\ pin.imageUrl = file.url
                                        /\ pin.imageWidth = file.width
                                        /\ pin.imageHeight = file.height

\* C29: with two uploads in flight for one pin, imageUrl, imageWidth and
\* imageHeight come from the same upload in every state, each completion
\* pushes one history entry, and once both have completed the pin holds the
\* image of the file selected second.
C29_LastSelectedWins ==
    [][/\ CoherentImages'
       /\ (lastOp'.name = "imageLoaded" /\ lastOp'.saved) =>
              LET id == uploads[lastOp'.arg[1]].id
                  same == {j \in 1..Len(uploads') : uploads'[j].id = id}
                  last == CHOOSE j \in same : \A i \in same : i <= j
              IN  /\ pushes' = pushes + 1
                  /\ (Cardinality(same) = 2 /\ \A j \in same : uploads'[j].stage = "done") =>
                         MapGet(pins', id).imageUrl = uploads'[last].file.url]_vars

\* the number of consecutive undo() calls that change the state of b
RECURSIVE UndoDepth(_)
UndoDepth(b) == IF undo(b) = b THEN 0 ELSE 1 + UndoDepth(undo(b))

\* C27: after k mutations on a freshly baselined board with no undo in
\* between, exactly min(k + 1, 50) - 1 consecutive undo() calls change the
\* state and every further one does nothing; never can more than 49 edits be
\* undone.
C27_UndoDepth ==
    /\ phase = "mutating" =>
           UndoDepth(Cur) = (IF Len(trail) < maxHistory THEN Len(trail) ELSE maxHistory) - 1
    /\ UndoDepth(Cur) <= maxHistory - 1

\* C27 witness: fifty-one mutations in a row, of which forty-nine can be
\* undone.
C27_Witness ==
    /\ phase = "mutating"
    /\ Len(trail) - 1 > maxHistory
    /\ UndoDepth(Cur) = maxHistory - 1
    /\ undo(Cur) # Cur

\* C30: whenever the history is not empty the cursor is an index of it and the
\* entry at the cursor records the live pins.
C30_CursorEntryIsLive ==
    history # <<>> =>
        /\ 0 <= historyIndex
        /\ historyIndex <= Len(history) - 1
        /\ history[historyIndex + 1].pins = pins

\* C30 witness: a pin restored by undo() was moved, so that an earlier entry
\* shares the pin with the live board while the cursor is on the new entry.
C30_Witness ==
    /\ lastOp.name = "updatePin"
    /\ sharedIds # {}
    /\ aliasOf > 0
    /\ aliasOf # historyIndex + 1
    /\ history[aliasOf].pins = pins

\* C31: whenever undo() is effective (the cursor is above 0), a redo() right
\* after it returns the live pins, zoom, panX and panY to the values they had
\* just before the undo(), also when the viewport was zoomed or panned after
\* the last recorded mutation.
C31_RedoUndoesUndo ==
    historyIndex > 0 =>
        LET b == redo(undo(Cur))
        IN  /\ b.pins = pins
            /\ b.zoom = zoom
            /\ b.panX = panX
            /\ b.panY = panY

====
